---------------------------- MODULE Spec2Model ----------------------------
(***************************************************************************)
(* Model of audio-assistant/audio_analyzer.py (class AudioAnalyzer): the   *)
(* frame queue between the audio callback and the analysis worker, the     *)
(* per-frame classification (silence, level and clarity stages) and the    *)
(* debounce logic that commits current_ui_status, together with start()    *)
(* and stop().                                                             *)
(*                                                                         *)
(* Time is counted in units of 0.1 s, the largest unit in which all of the *)
(* program's durations (0.1 s, 1.0 s, 3 s) are whole numbers.  Levels are  *)
(* whole dBFS values.  Band energies are whole numbers.                    *)
(***************************************************************************)
EXTENDS Integers, Sequences, FiniteSets

(***************************************************************************)
(* Program constants (class attributes of AudioAnalyzer).                  *)
(***************************************************************************)
DEBUG_CLARITY == TRUE

LOUD_DB_THRESHOLD == -9

QUIET_DB_THRESHOLD == -20

\* CLARITY_THRESHOLDS, in percent of the total band energy (0.04 and 0.10).
MUFFLED_HIGH_PERCENT == 4

TINNY_LOW_PERCENT == 10

\* Durations in units of 0.1 s.
PERSISTENCE_ATTACK == 1

PERSISTENCE_DECAY == 30

PERSISTENCE_NORMAL == 10

SILENT_STREAM_THRESHOLD_DB == -60

SILENT_STREAM_DURATION_S == 30

\* queue.Queue() is built without a maxsize: maxsize 0 means "no limit".
maxsize == 0

\* The value None of silent_stream_start_time (never a clock reading).
None == -1

(***************************************************************************)
(* Bounds of the model.                                                    *)
(***************************************************************************)
\* Last clock reading of a run.
MaxTime == 41

\* The clock is read at the instants that lie at most Jitter units after a
\* multiple of one second (every duration of the program is a multiple of
\* one second but PERSISTENCE_ATTACK, which is one unit).
Jitter == 1

\* Most frames the frame source puts ahead of the worker.
MaxQueue == 2

Instants == {t \in 0..MaxTime : t % PERSISTENCE_NORMAL <= Jitter}

LaterInstants(t) == {u \in Instants : u > t}

NextInstant(t) == CHOOSE u \in LaterInstants(t) : \A v \in LaterInstants(t) : u <= v

\* What a later time.time() of the same loop iteration may return: the
\* iteration may straddle the clock readings of one jitter window.
Reads(t) == {u \in Instants : t <= u /\ u <= t + Jitter}

(***************************************************************************)
(* Frames: the dB level 20*log10(rms + epsilon) of the block and the       *)
(* summed FFT magnitudes of its three bands.                               *)
(***************************************************************************)
Frame(d, l, m, h) == [db |-> d, low |-> l, mid |-> m, high |-> h]

\* A silent block, rms 0.001: 20*log10(0.001) = -60, at the silence floor.
Rms0001 == Frame(-60, 0, 0, 0)

\* rms 0.002: -54 dB.
Rms0002 == Frame(-54, 2, 6, 2)

\* rms 0.3: -10 dB.
Rms03 == Frame(-10, 20, 60, 20)

\* rms 0.7: -3 dB.
Rms07 == Frame(-3, 20, 60, 20)

FrameSet == {Rms0001, Rms0002, Rms03, Rms07}

\* Scenario B of the specification: every block has rms 0.002.
ScenarioB == {Rms0002}

\* What the microphone may deliver in a run: anything, or scenario B.
Sources == {FrameSet, ScenarioB}

Labels == {"INITIALIZING", "TOO QUIET", "GOOD", "TOO LOUD",
           "CHECK PROFILE", "MUFFLED", "TINNY"}

VARIABLES
    now,                          \* time.time()
    running,                      \* self.running
    thread,                       \* self._worker_thread: "new", "alive", "dead"
    stream,                       \* self.stream: "none", "active", "closed"
    mpc,                          \* the caller of start() and stop(); in main.py:
                                  \* "main", "mainloop", "join", "destroyed";
                                  \* "raised" after a call that raised
    wpc,                          \* the worker: "new", "init", "loop", "get", "done"
    audio_queue,                  \* self.audio_queue
    silent_stream_start_time,     \* self.silent_stream_start_time
    current_ui_status,            \* local of _analysis_worker
    potential_new_status,         \* local of _analysis_worker
    potential_status_start_time,  \* local of _analysis_worker
    source,                       \* the blocks the microphone delivers in this run
    prev_ui_status,               \* history: current_ui_status before the last frame
    blip,                         \* history: 1 after a blip frame, 2 after its revert
    floor_run,                    \* history: no frame above the silence floor since
                                  \* the candidate appeared
    status_calls,                 \* the calls of self.status_callback made by the
                                  \* worker in its current loop iteration
    caught,                       \* the worker's last frame ended in the handler of
                                  \* line 197
    sink_status                   \* the status of the last update_full_status=True
                                  \* call of status_callback that returned

vars == <<now, running, thread, stream, mpc, wpc, audio_queue,
          silent_stream_start_time, current_ui_status, potential_new_status,
          potential_status_start_time, source, prev_ui_status, blip, floor_run,
          status_calls, caught, sink_status>>

history == <<prev_ui_status, blip, floor_run>>

locals == <<current_ui_status, potential_new_status, potential_status_start_time>>

(***************************************************************************)
(* queue.Queue.put blocks while the queue is full; with maxsize 0 it never *)
(* is.                                                                     *)
(***************************************************************************)
QueueFull_Bounded(q) == Len(q) >= 1

QueueFull(q) == maxsize > 0 /\ Len(q) >= maxsize

(***************************************************************************)
(* The classifier of one frame (lines 109-174).                            *)
(***************************************************************************)
SilenceStart_Keep(db, start) == start

\* Lines 110-112: the silence timer after the frame.
SilenceStart(db, start) ==
    IF start # None /\ db > SILENT_STREAM_THRESHOLD_DB THEN None ELSE start

SilenceStage_NoWait(db, start, t) ==
    IF start # None /\ ~(db > SILENT_STREAM_THRESHOLD_DB)
    THEN "CHECK PROFILE" ELSE ""

\* Lines 110-114: the label of the silence stage ("" when it gives none).
SilenceStage(db, start, t) ==
    IF start # None /\ ~(db > SILENT_STREAM_THRESHOLD_DB)
                    /\ t - start > SILENT_STREAM_DURATION_S
    THEN "CHECK PROFILE" ELSE ""

LevelStage_NoShortCircuit(label, db) ==
    IF db < QUIET_DB_THRESHOLD THEN "TOO QUIET"
    ELSE IF db > LOUD_DB_THRESHOLD THEN "TOO LOUD"
    ELSE "GOOD"

\* Lines 116-122.
LevelStage(label, db) ==
    IF label # "" THEN label
    ELSE IF db < QUIET_DB_THRESHOLD THEN "TOO QUIET"
    ELSE IF db > LOUD_DB_THRESHOLD THEN "TOO LOUD"
    ELSE "GOOD"

\* Lines 126-174.  With DEBUG_CLARITY the branch that relabels the frame
\* (the else of line 168) is not taken; the debug branch only collects and
\* prints averages (debug_energy_samples is not modelled).
ClarityStage(label, f) ==
    LET total_energy == f.low + f.mid + f.high
    IN  IF label = "GOOD" /\ total_energy > 0 /\ ~DEBUG_CLARITY
        THEN IF f.high * 100 < MUFFLED_HIGH_PERCENT * total_energy THEN "MUFFLED"
             ELSE IF f.low * 100 < TINNY_LOW_PERCENT * total_energy THEN "TINNY"
             ELSE label
        ELSE label

RawChunkStatus(f, start, t) ==
    ClarityStage(LevelStage(SilenceStage(f.db, start, t), f.db), f)

(***************************************************************************)
(* The debounce logic of one frame (lines 176-193).                        *)
(***************************************************************************)
CandidateSince_Always(raw, potential, since, t) == t

CandidateSince_Never(raw, potential, since, t) == since

\* Lines 176-178: the start time of the candidate after the frame.
CandidateSince(raw, potential, since, t) ==
    IF raw # potential THEN t ELSE since

PersistenceNeeded_Swapped(current, potential) ==
    IF (current = "TOO QUIET" /\ potential = "GOOD")
       \/ (current = "GOOD" /\ potential = "TOO LOUD")
    THEN PERSISTENCE_DECAY
    ELSE IF current = "GOOD" /\ potential = "TOO QUIET"
    THEN PERSISTENCE_ATTACK
    ELSE PERSISTENCE_NORMAL

PersistenceNeeded_NoDecay(current, potential) ==
    IF (current = "TOO QUIET" /\ potential = "GOOD")
       \/ (current = "GOOD" /\ potential = "TOO LOUD")
    THEN PERSISTENCE_ATTACK
    ELSE PERSISTENCE_NORMAL

PersistenceNeeded_NoAttack(current, potential) ==
    IF current = "GOOD" /\ potential = "TOO QUIET"
    THEN PERSISTENCE_DECAY
    ELSE PERSISTENCE_NORMAL

\* Lines 180-185.
PersistenceNeeded(current, potential) ==
    IF (current = "TOO QUIET" /\ potential = "GOOD")
       \/ (current = "GOOD" /\ potential = "TOO LOUD")
    THEN PERSISTENCE_ATTACK
    ELSE IF current = "GOOD" /\ potential = "TOO QUIET"
    THEN PERSISTENCE_DECAY
    ELSE PERSISTENCE_NORMAL

Commits_Eager(t, since, needed, potential, current) == potential # current

\* Lines 187-188.
Commits(t, since, needed, potential, current) ==
    t - since >= needed /\ potential # current

(***************************************************************************)
(* The calls of self.status_callback (lines 106 and 190-193).              *)
(***************************************************************************)
StatusCall(status, db_value, update_full_status) ==
    [status |-> status, db |-> db_value, full |-> update_full_status]

\* Line 106: the call every frame makes, with the status before the frame.
MetricUpdate(current, db) == StatusCall(current, db, FALSE)

\* Lines 190-193: the status a committing frame passes to the callback.
CommitText(status) ==
    IF status = "CHECK PROFILE" THEN "Set AirPods to HSP/HFP Profile" ELSE status

StatusCalls_EveryFrame(current, potential, db, commits) ==
    <<MetricUpdate(current, db), StatusCall(CommitText(potential), db, TRUE)>>

\* Lines 106 and 187-193: the calls of one frame, in order.
StatusCalls(current, potential, db, commits) ==
    IF commits
    THEN <<MetricUpdate(current, db), StatusCall(CommitText(potential), db, TRUE)>>
    ELSE <<MetricUpdate(current, db)>>

\* Lines 190-193: the status the sink holds once the calls of a frame have
\* returned.
Surfaced(shown, potential, commits) ==
    IF commits THEN CommitText(potential) ELSE shown

(***************************************************************************)
(* History of the raw labels, kept for the properties only.  A blip frame  *)
(* is a frame whose raw label differs from the committed status while the  *)
(* frame before it agreed with it; the frame after it reverts when its raw *)
(* label is again the status that was committed before the blip.           *)
(***************************************************************************)
BlipNext(b, before, current, potential, raw) ==
    IF potential = current /\ raw # current THEN 1
    ELSE IF b = 1 /\ raw = before THEN 2
    ELSE 0

\* Whether every frame since the candidate appeared was at or below the
\* silence floor.
FloorRunNext(run, potential, raw, db) ==
    (raw = potential => run) /\ ~(db > SILENT_STREAM_THRESHOLD_DB)

(***************************************************************************)
(* Initial state: main.py has built the Application and the AudioAnalyzer  *)
(* (lines 57-71).  The locals of the worker get their values when the      *)
(* worker starts.                                                          *)
(***************************************************************************)
Init ==
    /\ now = 0
    /\ running = FALSE
    /\ thread = "new"
    /\ stream = "none"
    /\ mpc = "main"
    /\ wpc = "new"
    /\ audio_queue = <<>>
    /\ silent_stream_start_time = None
    /\ current_ui_status = "INITIALIZING"
    /\ potential_new_status = "INITIALIZING"
    /\ potential_status_start_time = 0
    /\ source \in Sources
    /\ prev_ui_status = "INITIALIZING"
    /\ blip = 0
    /\ floor_run = TRUE
    /\ status_calls = <<>>
    /\ caught = FALSE
    /\ sink_status = "INITIALIZING"

(***************************************************************************)
(* The clock.  Only the worker loop reads it, and only differences of its  *)
(* readings matter: it is 0 when the worker starts.                        *)
(***************************************************************************)
Tick ==
    /\ wpc \in {"loop", "get"}
    /\ LaterInstants(now) # {}
    /\ now' = NextInstant(now)
    /\ UNCHANGED <<running, thread, stream, mpc, wpc, audio_queue,
                   silent_stream_start_time, locals, source, history, status_calls, caught, sink_status>>

(***************************************************************************)
(* start() (lines 200-212), called once by main.py (line 24).              *)
(* Thread.start() of a thread that was started before raises RuntimeError, *)
(* after running was set.                                                  *)
(***************************************************************************)
Start ==
    /\ mpc = "main"
    /\ mpc' = "mainloop"
    /\ IF ~running
       THEN /\ running' = TRUE
            /\ IF thread = "new"
               THEN thread' = "alive" /\ wpc' = "init" /\ stream' = "active"
               ELSE UNCHANGED <<thread, wpc, stream>>
       ELSE UNCHANGED <<running, thread, wpc, stream>>
    /\ UNCHANGED <<now, audio_queue, silent_stream_start_time, locals, source,
                   history, status_calls, caught, sink_status>>

(***************************************************************************)
(* stop() (lines 214-219), called by on_closing (main.py lines 16-19):     *)
(* clear the flag, join the worker for at most one second, then stop and   *)
(* close the stream; main.py then destroys the window.                     *)
(***************************************************************************)
StopSignal_ReleaseFirst ==
    /\ mpc = "mainloop"
    /\ IF running
       THEN running' = FALSE /\ mpc' = "join" /\ stream' = "closed"
       ELSE running' = running /\ mpc' = "destroyed" /\ stream' = stream
    /\ UNCHANGED <<now, thread, wpc, audio_queue,
                   silent_stream_start_time, locals, source, history, status_calls, caught, sink_status>>

StopSignal ==
    /\ mpc = "mainloop"
    /\ IF running
       THEN running' = FALSE /\ mpc' = "join"
       ELSE running' = running /\ mpc' = "destroyed"
    /\ UNCHANGED <<now, thread, stream, wpc, audio_queue,
                   silent_stream_start_time, locals, source, history, status_calls, caught, sink_status>>

\* join returns when the worker has ended or when its timeout expires.
StopRelease ==
    /\ mpc = "join"
    /\ mpc' = "destroyed"
    /\ stream' = IF stream = "none" THEN "none" ELSE "closed"
    /\ UNCHANGED <<now, running, thread, wpc, audio_queue,
                   silent_stream_start_time, locals, source, history, status_calls, caught, sink_status>>

(***************************************************************************)
(* _audio_callback (lines 84-85), called by the stream with a block.       *)
(***************************************************************************)
AudioCallback_Lifo(indata) ==
    /\ stream = "active"
    /\ indata \in source
    /\ Len(audio_queue) < MaxQueue
    /\ audio_queue' = <<indata>> \o audio_queue
    /\ UNCHANGED <<now, running, thread, stream, mpc, wpc,
                   silent_stream_start_time, locals, source, history, status_calls, caught, sink_status>>

AudioCallback(indata) ==
    /\ stream = "active"
    /\ indata \in source
    /\ Len(audio_queue) < MaxQueue
    /\ ~QueueFull(audio_queue)
    /\ audio_queue' = Append(audio_queue, indata)
    /\ UNCHANGED <<now, running, thread, stream, mpc, wpc,
                   silent_stream_start_time, locals, source, history, status_calls, caught, sink_status>>

(***************************************************************************)
(* _analysis_worker (lines 87-198).                                        *)
(***************************************************************************)
\* Lines 88-91.
WorkerInit ==
    /\ wpc = "init"
    /\ silent_stream_start_time' = now
    /\ current_ui_status' = "INITIALIZING"
    /\ potential_new_status' = "INITIALIZING"
    /\ potential_status_start_time' = now
    /\ wpc' = "loop"
    /\ UNCHANGED <<now, running, thread, stream, mpc, audio_queue, source,
                   history, status_calls, caught, sink_status>>

\* Line 93: the test of the while loop.  The locals end with the function.
WorkerLoop ==
    /\ wpc = "loop"
    /\ IF running
       THEN /\ wpc' = "get"
            /\ UNCHANGED <<thread, locals, history, caught>>
       ELSE /\ wpc' = "done"
            /\ thread' = "dead"
            /\ caught' = FALSE
            /\ current_ui_status' = "INITIALIZING"
            /\ potential_new_status' = "INITIALIZING"
            /\ potential_status_start_time' = 0
            /\ prev_ui_status' = "INITIALIZING"
            /\ blip' = 0
            /\ floor_run' = TRUE
    /\ status_calls' = <<>>
    /\ UNCHANGED <<now, running, stream, mpc, audio_queue,
                   silent_stream_start_time, source, sink_status>>

WorkerEmpty_NoTimeout ==
    /\ wpc = "get"
    /\ audio_queue = <<>>
    /\ UNCHANGED vars

\* Lines 95 and 195-196: get timed out on an empty queue.
WorkerEmpty ==
    /\ wpc = "get"
    /\ audio_queue = <<>>
    /\ wpc' = "loop"
    /\ UNCHANGED <<now, running, thread, stream, mpc, audio_queue,
                   silent_stream_start_time, locals, source, history, status_calls, caught, sink_status>>

\* Lines 95-193: one frame.  t2 and t3 are the clock readings of lines 178
\* and 187; the reading of line 113 is the time the frame was taken.
WorkerFrame(t2, t3) ==
    /\ wpc = "get"
    /\ audio_queue # <<>>
    /\ LET float_data == Head(audio_queue)
           raw_chunk_status == RawChunkStatus(float_data, silent_stream_start_time, now)
           since == CandidateSince(raw_chunk_status, potential_new_status,
                                   potential_status_start_time, t2)
           persistence_needed == PersistenceNeeded(current_ui_status, raw_chunk_status)
           commits == Commits(t3, since, persistence_needed, raw_chunk_status,
                              current_ui_status)
       IN  /\ silent_stream_start_time' =
                  SilenceStart(float_data.db, silent_stream_start_time)
           /\ potential_new_status' = raw_chunk_status
           /\ potential_status_start_time' = since
           /\ current_ui_status' =
                  IF commits THEN raw_chunk_status ELSE current_ui_status
           /\ status_calls' = StatusCalls(current_ui_status, raw_chunk_status,
                                          float_data.db, commits)
           /\ sink_status' = Surfaced(sink_status, raw_chunk_status, commits)
           /\ prev_ui_status' = current_ui_status
           /\ blip' = BlipNext(blip, prev_ui_status, current_ui_status,
                               potential_new_status, raw_chunk_status)
           /\ floor_run' = FloorRunNext(floor_run, potential_new_status,
                                        raw_chunk_status, float_data.db)
    /\ audio_queue' = Tail(audio_queue)
    /\ now' = t3
    /\ wpc' = "loop"
    /\ caught' = FALSE
    /\ UNCHANGED <<running, thread, stream, mpc, source>>

WorkerStep == \E t2 \in Reads(now) : \E t3 \in Reads(t2) : WorkerFrame(t2, t3)

(***************************************************************************)
(* A frame whose processing raises (lines 197-198).  The exception leaves  *)
(* the try block at the statement that raised it, keeping what the frame   *)
(* had assigned before; the handler prints the error and the loop goes on. *)
(***************************************************************************)
\* Where a frame may raise: in the metric computation (lines 98-103), in the
\* sink call of line 106, in the classification after the silence stage
\* (lines 116-174), in the sink call of a commit (lines 191 and 193).
RaisePoints == {"metric", "callback", "classify", "commit"}

WorkerRaise_Exits(at, t2, t3) ==
    /\ wpc = "get"
    /\ audio_queue # <<>>
    /\ at \in RaisePoints
    /\ t2 = now /\ t3 = now
    /\ audio_queue' = Tail(audio_queue)
    /\ wpc' = "done"
    /\ thread' = "dead"
    /\ caught' = TRUE
    /\ status_calls' = <<>>
    /\ UNCHANGED <<now, running, stream, mpc, silent_stream_start_time, locals,
                   source, history, sink_status>>

WorkerRaise(at, t2, t3) ==
    /\ wpc = "get"
    /\ audio_queue # <<>>
    /\ LET float_data == Head(audio_queue)
           raw_chunk_status == RawChunkStatus(float_data, silent_stream_start_time, now)
           since == CandidateSince(raw_chunk_status, potential_new_status,
                                   potential_status_start_time, t2)
           persistence_needed == PersistenceNeeded(current_ui_status, raw_chunk_status)
           commits == Commits(t3, since, persistence_needed, raw_chunk_status,
                              current_ui_status)
       IN  CASE at = "metric" ->
                  /\ t2 = now /\ t3 = now
                  /\ status_calls' = <<>>
                  /\ UNCHANGED <<silent_stream_start_time, locals, history>>
             [] at = "callback" ->
                  /\ t2 = now /\ t3 = now
                  /\ status_calls' = <<MetricUpdate(current_ui_status, float_data.db)>>
                  /\ UNCHANGED <<silent_stream_start_time, locals, history>>
             [] at = "classify" ->
                  /\ t2 = now /\ t3 = now
                  /\ status_calls' = <<MetricUpdate(current_ui_status, float_data.db)>>
                  /\ silent_stream_start_time' =
                         SilenceStart(float_data.db, silent_stream_start_time)
                  /\ UNCHANGED <<locals, history>>
             [] at = "commit" ->
                  /\ commits
                  /\ status_calls' = StatusCalls(current_ui_status, raw_chunk_status,
                                                 float_data.db, TRUE)
                  /\ silent_stream_start_time' =
                         SilenceStart(float_data.db, silent_stream_start_time)
                  /\ potential_new_status' = raw_chunk_status
                  /\ potential_status_start_time' = since
                  /\ current_ui_status' = raw_chunk_status
                  /\ prev_ui_status' = current_ui_status
                  /\ blip' = BlipNext(blip, prev_ui_status, current_ui_status,
                                      potential_new_status, raw_chunk_status)
                  /\ floor_run' = FloorRunNext(floor_run, potential_new_status,
                                               raw_chunk_status, float_data.db)
             [] OTHER -> FALSE
    /\ audio_queue' = Tail(audio_queue)
    /\ now' = t3
    /\ wpc' = "loop"
    /\ caught' = TRUE
    /\ UNCHANGED <<running, thread, stream, mpc, source, sink_status>>

WorkerFault ==
    \E at \in RaisePoints : \E t2 \in Reads(now) : \E t3 \in Reads(t2) :
        WorkerRaise(at, t2, t3)

Next ==
    \/ Tick
    \/ Start
    \/ StopSignal
    \/ StopRelease
    \/ \E indata \in FrameSet : AudioCallback(indata)
    \/ WorkerInit
    \/ WorkerLoop
    \/ WorkerEmpty
    \/ WorkerStep

Spec == Init /\ [][Next]_vars

(***************************************************************************)
(* The worker is a thread of its own: the scheduler lets it run, and        *)
(* get(timeout=1) returns after at most one second.                        *)
(***************************************************************************)
WorkerFairness ==
    /\ WF_vars(WorkerInit)
    /\ WF_vars(WorkerLoop)
    /\ WF_vars(WorkerEmpty)
    /\ WF_vars(WorkerStep)

LiveSpec == Spec /\ WorkerFairness

(***************************************************************************)
(* AudioAnalyzer under a caller that calls start() and stop() any number   *)
(* of times, and with an input stream that may fail to open.  The caller   *)
(* is at "main" between calls, at "join" inside stop(), and at "raised"    *)
(* after a call that raised, from where it may call again.                 *)
(***************************************************************************)
\* start() (lines 200-212).  opens: sd.InputStream(...) and stream.start()
\* succeed.  Thread.start() raises RuntimeError for a thread that was started
\* before; the statements after the one that raises are not executed.
StartCall(opens) ==
    /\ mpc \in {"main", "raised"}
    /\ IF running
       THEN UNCHANGED <<running, thread, wpc, stream, mpc>>
       ELSE /\ running' = TRUE
            /\ IF thread = "new"
               THEN /\ thread' = "alive"
                    /\ wpc' = "init"
                    /\ stream' = IF opens THEN "active" ELSE stream
                    /\ mpc' = IF opens THEN "main" ELSE "raised"
               ELSE /\ mpc' = "raised"
                    /\ UNCHANGED <<thread, wpc, stream>>
    /\ UNCHANGED <<now, audio_queue, silent_stream_start_time, locals, source,
                   history, status_calls, caught, sink_status>>

\* stop(), lines 215-216.
StopCall ==
    /\ mpc \in {"main", "raised"}
    /\ IF running
       THEN running' = FALSE /\ mpc' = "join"
       ELSE UNCHANGED <<running, mpc>>
    /\ UNCHANGED <<now, thread, stream, wpc, audio_queue,
                   silent_stream_start_time, locals, source, history,
                   status_calls, caught, sink_status>>

\* stop(), lines 217-219: join returns, then the stream is stopped and closed.
\* self.stream is assigned by start() only (line 204): without a stream
\* line 218 raises AttributeError, and stopping a closed stream raises too.
StopReturn ==
    /\ mpc = "join"
    /\ IF stream = "active"
       THEN stream' = "closed" /\ mpc' = "main"
       ELSE stream' = stream /\ mpc' = "raised"
    /\ UNCHANGED <<now, running, thread, wpc, audio_queue,
                   silent_stream_start_time, locals, source, history,
                   status_calls, caught, sink_status>>

ApiNext ==
    \/ Tick
    \/ \E opens \in BOOLEAN : StartCall(opens)
    \/ StopCall
    \/ StopReturn
    \/ \E indata \in FrameSet : AudioCallback(indata)
    \/ WorkerInit
    \/ WorkerLoop
    \/ WorkerEmpty
    \/ WorkerStep

ApiSpec == Init /\ [][ApiNext]_vars

(***************************************************************************)
(* The classifier on its own: one frame, drawn from levels around every    *)
(* threshold and band profiles around both clarity thresholds, processed   *)
(* by a running worker that waits in get.                                  *)
(***************************************************************************)
\* dB levels below, at and above the silence floor and both thresholds.
Levels ==
    {SILENT_STREAM_THRESHOLD_DB - 1, SILENT_STREAM_THRESHOLD_DB,
     SILENT_STREAM_THRESHOLD_DB + 1,
     QUIET_DB_THRESHOLD - 1, QUIET_DB_THRESHOLD, QUIET_DB_THRESHOLD + 1,
     LOUD_DB_THRESHOLD - 1, LOUD_DB_THRESHOLD, LOUD_DB_THRESHOLD + 1}

\* Band energies <<low, mid, high>>: balanced, high band below and at 4 %,
\* low band below and at 10 %, and no energy in any band.
Profiles ==
    {<<20, 60, 20>>, <<20, 77, 3>>, <<20, 76, 4>>, <<9, 71, 20>>,
     <<10, 70, 20>>, <<0, 0, 0>>}

Blocks == {Frame(d, p[1], p[2], p[3]) : d \in Levels, p \in Profiles}

\* The worker waits in get with one block queued: either no frame was
\* processed yet, or frames above the floor were and a status is committed.
ClassifierInit ==
    /\ now \in Instants
    /\ running = TRUE
    /\ thread = "alive"
    /\ stream = "active"
    /\ mpc = "mainloop"
    /\ wpc = "get"
    /\ audio_queue \in {<<b>> : b \in Blocks}
    /\ \/ /\ silent_stream_start_time = 0
          /\ current_ui_status = "INITIALIZING"
       \/ /\ silent_stream_start_time = None
          /\ current_ui_status \in {"TOO QUIET", "GOOD", "TOO LOUD"}
          /\ now >= PERSISTENCE_NORMAL
    /\ potential_new_status = current_ui_status
    /\ potential_status_start_time = 0
    /\ source = FrameSet
    /\ prev_ui_status = current_ui_status
    /\ blip = 0
    /\ floor_run = (silent_stream_start_time # None)
    /\ status_calls = <<>>
    /\ caught = FALSE
    /\ sink_status = current_ui_status

ClassifierNext == WorkerStep

ClassifierSpec == ClassifierInit /\ [][ClassifierNext]_vars

(***************************************************************************)
(* The program with frames that raise.                                     *)
(***************************************************************************)
FaultNext ==
    \/ Next
    \/ WorkerFault

FaultSpec == Init /\ [][FaultNext]_vars

(***************************************************************************)
(* Properties.                                                             *)
(***************************************************************************)
\* A step in which the worker takes a frame off the queue and processes it.
FrameStep == Len(audio_queue') < Len(audio_queue)

AboveFloor(f) == f.db > SILENT_STREAM_THRESHOLD_DB

\* C1: on a processed frame current_ui_status changes only to a candidate
\* that differs from it and has been held for at least the persistence
\* duration of the (current, candidate) pair; otherwise it is unchanged.
C1_CommitOnlyAfterPersistence ==
    [][FrameStep /\ current_ui_status' # current_ui_status =>
         /\ potential_new_status' # current_ui_status
         /\ current_ui_status' = potential_new_status'
         /\ now' - potential_status_start_time' >=
               PersistenceNeeded(current_ui_status, potential_new_status')]_vars

\* A frame has just committed Good -> TooQuiet, after the decay duration.
C1_Witness ==
    /\ prev_ui_status = "GOOD"
    /\ current_ui_status = "TOO QUIET"
    /\ now - potential_status_start_time >= PERSISTENCE_DECAY

\* The durations as the specification lists them.
ClaimedDuration(current, candidate) ==
    CASE current = "TOO QUIET" /\ candidate = "GOOD" -> PERSISTENCE_ATTACK
      [] current = "GOOD" /\ candidate = "TOO LOUD" -> PERSISTENCE_ATTACK
      [] current = "GOOD" /\ candidate = "TOO QUIET" -> PERSISTENCE_DECAY
      [] OTHER -> PERSISTENCE_NORMAL

\* The selection of lines 180-185 agrees with the list on every pair of labels.
SelectionAgrees ==
    \A c, p \in Labels : PersistenceNeeded(c, p) = ClaimedDuration(c, p)

\* C2: the duration selected for a (current, candidate) pair is the attack
\* duration exactly for TooQuiet -> Good and Good -> TooLoud, the decay
\* duration exactly for Good -> TooQuiet and the normal duration for every
\* other pair of labels; a candidate that differs from the status is
\* committed by a frame exactly when it has been held that long.
C2_DurationSelected ==
    [][FrameStep =>
         /\ SelectionAgrees
         /\ potential_new_status' # current_ui_status =>
               ((current_ui_status' = potential_new_status') <=>
                (now' - potential_status_start_time' >=
                    ClaimedDuration(current_ui_status, potential_new_status')))]_vars

\* A frame has just committed Good -> TooLoud sooner than the normal duration.
C2_Witness ==
    /\ prev_ui_status = "GOOD"
    /\ current_ui_status = "TOO LOUD"
    /\ now - potential_status_start_time < PERSISTENCE_NORMAL

\* C3: a processed frame sets potential_status_start_time to a clock reading
\* of that frame if and only if its raw label differs from the stored
\* candidate; a frame with the candidate's label leaves it unchanged.
C3_SinceResetIffLabelChanges ==
    [][FrameStep =>
         IF potential_new_status' # potential_new_status
         THEN /\ now <= potential_status_start_time'
              /\ potential_status_start_time' <= now'
         ELSE potential_status_start_time' = potential_status_start_time]_vars

\* A candidate that appeared after the start was kept, with its start time,
\* by later frames until one of them committed it (TooQuiet -> TooLoud takes
\* the normal duration).
C3_Witness ==
    /\ prev_ui_status = "TOO QUIET"
    /\ current_ui_status = "TOO LOUD"
    /\ potential_status_start_time > 0
    /\ now - potential_status_start_time >= PERSISTENCE_NORMAL

\* C4: a frame whose raw label differs from the committed status, after a
\* frame that agreed with it, commits nothing when its processing takes less
\* than the persistence duration of the pair, and the next frame, whose raw
\* label is the committed status again, commits nothing either.
C4_BlipCommitsNothing ==
    [][FrameStep =>
         /\ (/\ potential_new_status = current_ui_status
             /\ potential_new_status' # current_ui_status
             /\ now' - now < PersistenceNeeded(current_ui_status,
                                               potential_new_status'))
            => current_ui_status' = current_ui_status
         /\ (/\ blip = 1
             /\ prev_ui_status = current_ui_status
             /\ potential_new_status' = current_ui_status)
            => current_ui_status' = current_ui_status]_vars

\* A blip frame and the frame reverting it have been processed, and the
\* status committed before the blip is still the committed one.
C4_Witness ==
    /\ blip = 2
    /\ current_ui_status = "GOOD"
    /\ prev_ui_status = current_ui_status
    /\ potential_new_status = current_ui_status

\* C5: while TooQuiet is committed, a block of rms 0.3 has the raw label Good,
\* and the frame commits Good exactly when Good has been held for the attack
\* duration (0.1 s); otherwise the status stays TooQuiet.
C5_AttackFromTooQuiet ==
    [][FrameStep /\ current_ui_status = "TOO QUIET" /\ Head(audio_queue) = Rms03 =>
         /\ potential_new_status' = "GOOD"
         /\ current_ui_status' =
               IF now' - potential_status_start_time' >= PERSISTENCE_ATTACK
               THEN "GOOD" ELSE "TOO QUIET"]_vars

\* TooQuiet -> Good has just been committed sooner than the normal duration.
C5_Witness ==
    /\ prev_ui_status = "TOO QUIET"
    /\ current_ui_status = "GOOD"
    /\ now - potential_status_start_time >= PERSISTENCE_ATTACK
    /\ now - potential_status_start_time < PERSISTENCE_NORMAL

C7_SilenceRearms ==
    [][FrameStep /\ ~AboveFloor(Head(audio_queue))
                 /\ floor_run
                 /\ now - potential_status_start_time > SILENT_STREAM_DURATION_S
         => potential_new_status' = "CHECK PROFILE"]_vars

\* C8: a frame above the silence floor clears the silence timer and is not
\* labelled CheckProfile, and once the timer is cleared no later frame is
\* labelled CheckProfile (the timer stays cleared).
C8_SilenceSticky ==
    [][FrameStep =>
         /\ AboveFloor(Head(audio_queue)) =>
               /\ silent_stream_start_time' = None
               /\ potential_new_status' # "CHECK PROFILE"
         /\ silent_stream_start_time = None =>
               /\ silent_stream_start_time' = None
               /\ potential_new_status' # "CHECK PROFILE"]_vars

\* CheckProfile was produced and committed, then a frame above the floor
\* cleared the timer, and a silent frame after it is labelled TooQuiet.
C8_Witness ==
    /\ current_ui_status = "CHECK PROFILE"
    /\ silent_stream_start_time = None
    /\ potential_new_status = "TOO QUIET"
    /\ floor_run

\* A capacity below the number of frames the source puts ahead of the worker.
QueueCapacity == MaxQueue - 1

\* C9: the number of queued frames never exceeds a fixed capacity.
C9_QueueBounded == Len(audio_queue) <= QueueCapacity

\* C10: while the stream is active the callback can complete its put for any
\* block, whatever the queue holds and wherever the worker is (the bound on
\* the frames ahead of the worker is the model's, not the queue's).
C10_ProducerNeverBlocks ==
    (stream = "active" /\ Len(audio_queue) < MaxQueue) =>
        \A indata \in source : ENABLED AudioCallback(indata)

\* The worker has ended and does not take frames; the callback has put a
\* frame and can put another.
C10_Witness ==
    /\ stream = "active"
    /\ wpc = "done"
    /\ audio_queue # <<>>
    /\ Len(audio_queue) < MaxQueue

\* C11: the queue is first-in first-out and hands each frame over once: a
\* step that takes a frame removes exactly the oldest queued frame and that
\* frame is the one the worker processes (its dB value goes to the sink and
\* its label becomes the candidate); every other step leaves the queue as it
\* is or adds one frame behind the frames already queued.
C11_FifoAtMostOnce ==
    [][IF FrameStep
       THEN /\ audio_queue' = Tail(audio_queue)
            /\ status_calls' # <<>>
            /\ status_calls'[1].db = Head(audio_queue).db
            /\ potential_new_status' =
                   RawChunkStatus(Head(audio_queue), silent_stream_start_time, now)
       ELSE \/ audio_queue' = audio_queue
            \/ \E indata \in FrameSet : audio_queue' = Append(audio_queue, indata)]_vars

\* The worker has processed a frame while a frame of another level, put
\* after it, is still queued.
C11_Witness ==
    /\ wpc = "loop"
    /\ status_calls # <<>>
    /\ audio_queue # <<>>
    /\ Head(audio_queue).db # status_calls[1].db

\* C12: every processed frame calls the sink first with update_full_status
\* False, the status committed before the frame and the frame's dB value; it
\* makes a call with update_full_status True if and only if it commits a
\* change of current_ui_status, and that call is its last.  No other step
\* calls the sink.
C12_SinkNotifications ==
    [][IF FrameStep
       THEN /\ Len(status_calls') \in {1, 2}
            /\ status_calls'[1] =
                   StatusCall(current_ui_status, Head(audio_queue).db, FALSE)
            /\ (Len(status_calls') = 2) <=> (current_ui_status' # current_ui_status)
            /\ Len(status_calls') = 2 =>
                   /\ status_calls'[2].full
                   /\ status_calls'[2].db = Head(audio_queue).db
       ELSE status_calls' \in {status_calls, <<>>}]_vars

\* A frame has committed Good and has made both calls.
C12_Witness ==
    /\ Len(status_calls) = 2
    /\ status_calls[2] = StatusCall("GOOD", Rms03.db, TRUE)
    /\ current_ui_status = "GOOD"
    /\ ~status_calls[1].full

\* C13: stop() on a running pipeline clears the running flag first and leaves
\* the stream alone in that step, then waits in join, which always can
\* return (it has a timeout); the stream is stopped and closed only by the
\* step in which join returns, with the flag already cleared.
C13_StopOrder ==
    /\ [][/\ (running /\ ~running') =>
               (mpc = "mainloop" /\ mpc' = "join" /\ stream' = stream)
          /\ (stream # "closed" /\ stream' = "closed") =>
               (mpc = "join" /\ mpc' = "destroyed" /\ ~running)
          /\ (mpc = "join" /\ mpc' # "join") => stream' = "closed"]_vars
    /\ [](mpc = "join" => ENABLED StopRelease)

\* stop() has returned on a pipeline that was running: the flag is cleared
\* and the stream is closed.
C13_Witness ==
    /\ mpc = "destroyed"
    /\ ~running
    /\ stream = "closed"

\* C14: once the running flag is cleared while the worker is alive, the
\* worker eventually ends, wherever it is: before its first loop test, in a
\* dequeue on an empty queue, or with frames queued or still arriving.
C14_WorkerTerminates == (thread = "alive" /\ ~running) ~> (thread = "dead")

\* The flag is cleared while the worker waits in a dequeue on an empty queue.
C14_Witness ==
    /\ thread = "alive"
    /\ ~running
    /\ wpc = "get"
    /\ audio_queue = <<>>

\* C15: a frame that raises is caught by the handler of the loop: the worker
\* stays alive and is back at the loop test, and from there, while the
\* pipeline is running, its next step is the next dequeue.
C15_FailureCaught ==
    [][/\ (caught' /\ FrameStep) => (thread' = "alive" /\ wpc' = "loop")
       /\ (caught /\ wpc = "loop" /\ wpc' # "loop" /\ running) =>
             (thread' = "alive" /\ wpc' = "get")
       /\ (caught /\ wpc = "get" /\ FrameStep) =>
             (status_calls' # <<>> \/ caught')]_vars

\* A frame that made its first sink call has raised; the pipeline still
\* running, the worker has passed the loop test and is in the next dequeue,
\* with a frame queued for it.
C15_Witness ==
    /\ caught
    /\ running
    /\ thread = "alive"
    /\ wpc = "get"
    /\ audio_queue # <<>>

\* C16: a frame that raises makes a call of the sink with the status Error.
C16_ErrorReported ==
    [][(caught' /\ FrameStep) =>
         \E i \in 1..Len(status_calls') :
            status_calls'[i].full /\ status_calls'[i].status = "ERROR"]_vars

\* C17: when the input stream cannot be opened inside start(), the pipeline
\* is not left running: the running flag is not set and no worker is alive.
C17_FailedStartNotRunning ==
    [][(StartCall(FALSE) /\ ~running /\ thread = "new") =>
         (~running' /\ thread' # "alive")]_vars

\* The pipeline was never started, or a stop() that followed a successful
\* start() has completed and the worker has ended.
Idle ==
    /\ ~running
    /\ mpc = "main"
    /\ \/ thread = "new" /\ stream = "none"
       \/ thread = "dead" /\ stream = "closed"

\* C18: start() on an idle pipeline, also after a completed stop(), spawns a
\* worker and arms the input stream; start() while running and stop() while
\* idle change nothing.
C18_LifecycleCycle ==
    [][/\ (StartCall(TRUE) /\ Idle) =>
             (running' /\ thread' = "alive" /\ wpc' = "init" /\ stream' = "active")
       /\ (StartCall(TRUE) /\ running) => UNCHANGED vars
       /\ (StopCall /\ ~running) => UNCHANGED vars]_vars

ClaimedClarity(f) ==
    LET total == f.low + f.mid + f.high
    IN  IF total = 0 THEN "GOOD"
        ELSE IF f.high * 100 < MUFFLED_HIGH_PERCENT * total THEN "MUFFLED"
        ELSE IF f.low * 100 < TINNY_LOW_PERCENT * total THEN "TINNY"
        ELSE "GOOD"

\* C20: a frame whose level-stage label is Good is labelled Muffled when its
\* high band holds less than 4 % of the band energy, otherwise Tinny when
\* its low band holds less than 10 %, otherwise Good; with no band energy
\* it stays Good.
C20_ClarityStage ==
    [][FrameStep =>
         LET f == Head(audio_queue)
         IN  LevelStage(SilenceStage(f.db, silent_stream_start_time, now), f.db) = "GOOD"
             => potential_new_status' = ClaimedClarity(f)]_vars

\* C21: the duration selected for Good -> TooQuiet is at least the one
\* selected for TooQuiet -> Good, and whenever a frame commits Good ->
\* TooQuiet, a TooQuiet -> Good candidate started at the same instant and
\* held until the same clock reading would be committed as well.
C21_Asymmetry ==
    [][(FrameStep /\ current_ui_status = "GOOD"
                  /\ current_ui_status' = "TOO QUIET") =>
         /\ PersistenceNeeded("GOOD", "TOO QUIET") >=
               PersistenceNeeded("TOO QUIET", "GOOD")
         /\ Commits(now', potential_status_start_time',
                    PersistenceNeeded("TOO QUIET", "GOOD"), "GOOD", "TOO QUIET")]_vars

\* A frame has committed Good -> TooQuiet and told the sink, the candidate
\* having been held for the decay duration.
C21_Witness ==
    /\ Len(status_calls) = 2
    /\ status_calls[1].status = "GOOD"
    /\ status_calls[2].status = "TOO QUIET"
    /\ current_ui_status = "TOO QUIET"
    /\ now - potential_status_start_time >= PERSISTENCE_DECAY

\* C22: while the worker is in its loop, also after a frame whose sink call
\* raised, current_ui_status is the status of the last status-change
\* notification the sink received (Initializing before the first one).
C22_StatusSurfaced ==
    (thread = "alive" /\ wpc \in {"loop", "get"}) =>
        sink_status = CommitText(current_ui_status)

\* C23: once stop() has returned and main.py has destroyed the window, the
\* worker has ended: it takes no frame and makes no call of the sink.
C23_NoNotificationAfterStop ==
    [][mpc = "destroyed" =>
         (~FrameStep /\ status_calls' \in {status_calls, <<>>})]_vars

TypeOK ==
    /\ now \in Instants
    /\ running \in BOOLEAN
    /\ thread \in {"new", "alive", "dead"}
    /\ stream \in {"none", "active", "closed"}
    /\ mpc \in {"main", "mainloop", "join", "destroyed", "raised"}
    /\ wpc \in {"new", "init", "loop", "get", "done"}
    /\ audio_queue \in Seq(FrameSet \cup Blocks)
    /\ silent_stream_start_time \in Instants \cup {None}
    /\ current_ui_status \in Labels
    /\ potential_new_status \in Labels
    /\ potential_status_start_time \in Instants
    /\ source \in Sources
    /\ prev_ui_status \in Labels
    /\ blip \in 0..2
    /\ floor_run \in BOOLEAN
    /\ status_calls \in Seq([status : Labels \cup {CommitText("CHECK PROFILE")},
                              db : {f.db : f \in FrameSet \cup Blocks},
                              full : BOOLEAN])
    /\ Len(status_calls) <= 2
    /\ caught \in BOOLEAN
    /\ sink_status \in Labels \cup {CommitText("CHECK PROFILE")}
=============================================================================
